---------------------------- MODULE Spec2Model ----------------------------
(***************************************************************************)
(* A model of UnstructuredTextMasher (source/lib/unstructured-text-masher  *)
(* .js): the mash locator _getMashInfo, the merger mash and the predicate  *)
(* textIsMashed.                                                           *)
(*                                                                         *)
(* A text is a sequence of one-character strings; offsets are 0-based as   *)
(* in the source.  The 13-character token %fingerprint% is one symbol of   *)
(* the alphabet.  undefined is modelled by -1 for offsets.                 *)
(***************************************************************************)
EXTENDS Integers, Sequences, FiniteSets, TLC

(***************************************************************************)
(* Program constants.                                                      *)
(***************************************************************************)
FINGERPRINT_VALUE_IN_HEX_LENGTH == 40

FINGERPRINT_PLACEHOLDER == "%fingerprint%"

Unmashed == "unmashed"

BeginTagMissing == "begin-tag-missing"

EndTagMissing == "end-tag-missing"

SourceTextTampered == "source-text-tampered"

FingerprintInvalid == "fingerprint-invalid"

Mashed == "mashed"

MashState ==
    {Unmashed, BeginTagMissing, EndTagMissing, SourceTextTampered,
     FingerprintInvalid, Mashed}

(***************************************************************************)
(* Bounds of the model.                                                    *)
(***************************************************************************)
\* Longest destination text a caller starts from.
MaxDestLen == 1

\* Most mashes of one document when no user edits it.
MaxMashes == 2

\* Most mashes of one document after a user has edited it.
MaxRemashes == 2

(***************************************************************************)
(* Characters.                                                             *)
(***************************************************************************)
HexDigits ==
    <<"0", "1", "2", "3", "4", "5", "6", "7",
      "8", "9", "a", "b", "c", "d", "e", "f">>

\* The character class [0-9a-fA-F] of the end tag pattern.
HexClass ==
    {HexDigits[i] : i \in 1..16} \cup {"A", "B", "C", "D", "E", "F"}

\* Every character a text of the model can hold, in a fixed order.
Alphabet ==
    HexDigits \o <<"A", "B", "C", "D", "E", "F", "x", "p", "q", "t",
                   "[", "]", FINGERPRINT_PLACEHOLDER>>

CharCodes ==
    [c \in {Alphabet[i] : i \in 1..Len(Alphabet)} |->
        CHOOSE i \in 1..Len(Alphabet) : Alphabet[i] = c]

CharCode(c) == CharCodes[c]

Min(S) == CHOOSE i \in S : \A j \in S : i <= j

\* The only element of a set of one element.  A local of the source computed
\* once and used several times is written The({F(x) : x \in {value}}).
The(S) == CHOOSE r \in S : TRUE

(***************************************************************************)
(* String primitives of the host language, 0-based.                        *)
(***************************************************************************)
\* String.prototype.substring(a, b) for a <= b: both are clamped to
\* 0..length.
substring(text, a, b) ==
    LET lo == IF a > Len(text) THEN Len(text) ELSE IF a < 0 THEN 0 ELSE a
        hi == IF b > Len(text) THEN Len(text) ELSE IF b < 0 THEN 0 ELSE b
    IN  IF lo >= hi THEN <<>> ELSE SubSeq(text, lo + 1, hi)

\* String.prototype.substring(a).
substringFrom(text, a) == substring(text, a, Len(text))

OccursAt(text, pat, i) ==
    /\ i >= 0
    /\ i + Len(pat) <= Len(text)
    /\ \A k \in 1..Len(pat) : text[i + k] = pat[k]

\* String.prototype.indexOf(pat, from): the least offset >= from, else -1;
\* the empty pattern is found at from, or at the length when from is beyond.
indexOf(text, pat, from) ==
    LET S == {i \in from..(Len(text) - Len(pat)) : OccursAt(text, pat, i)}
    IN  IF S # {} THEN Min(S)
        ELSE IF pat = <<>> THEN Len(text)
        ELSE -1

\* String.prototype.replace(pat, by) with a string pattern: the first
\* occurrence only.
replace(text, pat, by) ==
    LET i == indexOf(text, pat, 0)
    IN  IF i = -1 THEN text
        ELSE substring(text, 0, i) \o by \o substringFrom(text, i + Len(pat))

(***************************************************************************)
(* _fingerprint: SHA-1 rendered as 40 lowercase hexadecimal characters.    *)
(* The digest is modelled as 20 bytes, byte k folding the characters at    *)
(* offsets k, k+20, k+40, ...; the folded value is 0 exactly when the text *)
(* has no character at those offsets, so the digest is injective on texts  *)
(* of at most 20 characters.                                               *)
(***************************************************************************)
RECURSIVE FoldByte(_, _, _)
FoldByte(text, j, acc) ==
    IF j > Len(text) THEN acc
    ELSE FoldByte(text, j + (FINGERPRINT_VALUE_IN_HEX_LENGTH \div 2),
                  1 + ((acc * 31 + CharCode(text[j]) - 1) % 255))

\* Byte k of the digest: the folded value, scrambled by a bijection of 0..255.
DigestByte(text, k) == (FoldByte(text, k, 0) * 167 + 91 + 13 * k) % 256

_fingerprint(text) ==
    [i \in 1..FINGERPRINT_VALUE_IN_HEX_LENGTH |->
        LET byte == DigestByte(text, (i + 1) \div 2)
        IN  IF i % 2 = 1 THEN HexDigits[(byte \div 16) + 1]
            ELSE HexDigits[(byte % 16) + 1]]

(***************************************************************************)
(* The end tag and its pattern.                                            *)
(***************************************************************************)
\* Offset (1-based) of the first placeholder of an end tag, 0 when absent.
PlaceholderAt(endTag) ==
    LET S == {k \in 1..Len(endTag) : endTag[k] = FINGERPRINT_PLACEHOLDER}
    IN  IF S = {} THEN 0 ELSE Min(S)

\* endTag.replace(FINGERPRINT_PLACEHOLDER, fingerprint).
MaterializedEndTag(endTag, fingerprint) ==
    replace(endTag, <<FINGERPRINT_PLACEHOLDER>>, fingerprint)

\* Length of a match of endTagRegExp: the first placeholder is the group
\* ([0-9a-fA-F]{40}), every other character is literal.
EndTagMatchLength(endTag) ==
    IF PlaceholderAt(endTag) = 0 THEN Len(endTag)
    ELSE Len(endTag) - 1 + FINGERPRINT_VALUE_IN_HEX_LENGTH

\* endTagRegExp matches text at offset i; p is the place of the group in the
\* end tag.
EndTagRegExpMatchesAt(text, endTag, p, i) ==
    /\ \A k \in 1..Len(endTag) :
          \/ k = p
          \/ text[IF p = 0 \/ k < p THEN i + k
                  ELSE i + k + FINGERPRINT_VALUE_IN_HEX_LENGTH - 1]
                 = endTag[k]
    /\ p # 0 =>
          \A k \in 0..(FINGERPRINT_VALUE_IN_HEX_LENGTH - 1) :
              text[i + p + k] \in HexClass

\* endTagRegExp.exec(destinationText.substring(index)): the offset in
\* destinationText of the leftmost match at or after index, else -1.
EndTagRegExpExec(text, endTag, index) ==
    LET S == {i \in index..(Len(text) - EndTagMatchLength(endTag)) :
                 EndTagRegExpMatchesAt(text, endTag, PlaceholderAt(endTag), i)}
    IN  IF S = {} THEN -1 ELSE Min(S)

(***************************************************************************)
(* Occurrences.  NoOccurrence is the undefined occurrence.                 *)
(***************************************************************************)
NoOccurrence == [index |-> -1, endIndex |-> -1, fingerprint |-> <<>>]

\* One step of beginTagOccurrenceIterator: the occurrence found from index.
NextBeginTagOccurrence(text, beginTag, index) ==
    The({IF i = -1 THEN NoOccurrence
         ELSE [index |-> i, endIndex |-> i + Len(beginTag),
               fingerprint |-> <<>>] :
            i \in {indexOf(text, beginTag, index)}})

\* One step of endTagOccurrenceIterator: the occurrence found from index.
NextEndTagOccurrence(text, endTag, index) ==
    LET p == PlaceholderAt(endTag)
    IN  The({IF i = -1 THEN NoOccurrence
             ELSE [index |-> i,
                   endIndex |-> i + EndTagMatchLength(endTag),
                   fingerprint |->
                       IF p = 0 THEN <<>>
                       ELSE substring(text, i + p - 1,
                                i + p - 1 + FINGERPRINT_VALUE_IN_HEX_LENGTH)] :
                i \in {EndTagRegExpExec(text, endTag, index)}})

\* The expected source text of _getMashInfo: a string, or undefined.
NoSourceText == [isString |-> FALSE, text |-> <<>>]

Str(text) == [isString |-> TRUE, text |-> text]

createInfo(state, beginTagOccurrence, endTagOccurrence) ==
    [state |-> state,
     beginTagIndex |-> beginTagOccurrence.index,
     endOfBeginTagIndex |-> beginTagOccurrence.endIndex,
     endTagIndex |-> endTagOccurrence.index,
     endOfEndTagIndex |-> endTagOccurrence.endIndex]

\* The two checks of one (begin tag, end tag) pair.
PotentialSourceText(text, beginTagOccurrence, endTagOccurrence) ==
    substring(text, beginTagOccurrence.endIndex, endTagOccurrence.index)

\* A variant of IsSourceTextTampered without the test _.isString: undefined
\* is compared with the text between the tags.
IsSourceTextTamperedUnchecked(text, sourceText, beginTagOccurrence, endTagOccurrence) ==
    IF sourceText.isString
    THEN sourceText.text #
             PotentialSourceText(text, beginTagOccurrence, endTagOccurrence)
    ELSE TRUE

IsSourceTextTampered(text, sourceText, beginTagOccurrence, endTagOccurrence) ==
    IF sourceText.isString
    THEN sourceText.text #
             PotentialSourceText(text, beginTagOccurrence, endTagOccurrence)
    ELSE FALSE

IsFingerprintInvalid(text, beginTagOccurrence, endTagOccurrence) ==
    endTagOccurrence.fingerprint #
        _fingerprint(PotentialSourceText(text, beginTagOccurrence,
                                         endTagOccurrence))

(***************************************************************************)
(* _getMashInfo.  The generators are consumed lazily by two nested loops;  *)
(* each loop is a recursion whose step asks its iterator for the next      *)
(* occurrence.  scan holds the locals firstBeginTagOccurrence,             *)
(* firstEndTagOccurrence and firstInvalidState.                            *)
(***************************************************************************)
InitialScan ==
    [firstBeginTagOccurrence |-> NoOccurrence,
     firstEndTagOccurrence |-> NoOccurrence,
     firstInvalidState |-> Unmashed]

\* A variant of ScanAfterPair in which every invalid pair sets
\* firstInvalidState.
ScanAfterPairOverriding(text, sourceText, beginTagOccurrence, endTagOccurrence, scan) ==
    [firstBeginTagOccurrence |-> scan.firstBeginTagOccurrence,
     firstEndTagOccurrence |->
         IF scan.firstEndTagOccurrence = NoOccurrence
         THEN endTagOccurrence ELSE scan.firstEndTagOccurrence,
     firstInvalidState |->
         IF IsSourceTextTampered(text, sourceText, beginTagOccurrence,
                                 endTagOccurrence)
         THEN SourceTextTampered
         ELSE IF IsFingerprintInvalid(text, beginTagOccurrence,
                                      endTagOccurrence)
         THEN FingerprintInvalid
         ELSE scan.firstInvalidState]

\* The body of the inner loop up to the early return: the locals after the
\* pair (beginTagOccurrence, endTagOccurrence) has been examined.
ScanAfterPair(text, sourceText, beginTagOccurrence, endTagOccurrence, scan) ==
    LET sourceTextTampered ==
            IsSourceTextTampered(text, sourceText, beginTagOccurrence,
                                 endTagOccurrence)
        fingerprintInvalid ==
            IsFingerprintInvalid(text, beginTagOccurrence, endTagOccurrence)
    IN  [firstBeginTagOccurrence |-> scan.firstBeginTagOccurrence,
         firstEndTagOccurrence |->
             IF scan.firstEndTagOccurrence = NoOccurrence
             THEN endTagOccurrence ELSE scan.firstEndTagOccurrence,
         firstInvalidState |->
             IF scan.firstInvalidState = Unmashed
             THEN IF sourceTextTampered THEN SourceTextTampered
                  ELSE IF fingerprintInvalid THEN FingerprintInvalid
                  ELSE Unmashed
             ELSE scan.firstInvalidState]

PairIsMashed(text, sourceText, beginTagOccurrence, endTagOccurrence) ==
    /\ ~IsSourceTextTampered(text, sourceText, beginTagOccurrence,
                             endTagOccurrence)
    /\ ~IsFingerprintInvalid(text, beginTagOccurrence, endTagOccurrence)

\* What the inner loop does with the occurrence its iterator yields.
RECURSIVE EndTagLoop(_, _, _, _, _, _)
EndTagLoopBody(text, sourceText, endTag, beginTagOccurrence, scan, endTagOccurrence) ==
    IF endTagOccurrence = NoOccurrence
    THEN [returned |-> FALSE, scan |-> scan,
          info |-> createInfo(Unmashed, NoOccurrence, NoOccurrence)]
    ELSE IF PairIsMashed(text, sourceText, beginTagOccurrence,
                         endTagOccurrence)
    THEN [returned |-> TRUE, scan |-> scan,
          info |-> createInfo(Mashed, beginTagOccurrence, endTagOccurrence)]
    ELSE The({EndTagLoop(text, sourceText, endTag, beginTagOccurrence,
                         endTagOccurrence.endIndex, after) :
                 after \in {ScanAfterPair(text, sourceText,
                                          beginTagOccurrence,
                                          endTagOccurrence, scan)}})

EndTagLoop(text, sourceText, endTag, beginTagOccurrence, index, scan) ==
    The({EndTagLoopBody(text, sourceText, endTag, beginTagOccurrence, scan,
                        endTagOccurrence) :
            endTagOccurrence \in {NextEndTagOccurrence(text, endTag, index)}})

\* What the outer loop does with the occurrence its iterator yields.
RECURSIVE BeginTagLoop(_, _, _, _, _, _)
BeginTagLoopBody(text, beginTag, sourceText, endTag, scan, beginTagOccurrence) ==
    IF beginTagOccurrence = NoOccurrence
    THEN [returned |-> FALSE, scan |-> scan,
          info |-> createInfo(Unmashed, NoOccurrence, NoOccurrence)]
    ELSE The({IF inner.returned THEN inner
              ELSE BeginTagLoop(text, beginTag, sourceText, endTag,
                                beginTagOccurrence.index + Len(beginTag),
                                inner.scan) :
                 inner \in {EndTagLoop(text, sourceText, endTag,
                                       beginTagOccurrence,
                                       beginTagOccurrence.endIndex,
                                       [scan EXCEPT
                                           !.firstBeginTagOccurrence =
                                               IF @ = NoOccurrence
                                               THEN beginTagOccurrence
                                               ELSE @])}})

BeginTagLoop(text, beginTag, sourceText, endTag, index, scan) ==
    The({BeginTagLoopBody(text, beginTag, sourceText, endTag, scan,
                          beginTagOccurrence) :
            beginTagOccurrence \in
                {NextBeginTagOccurrence(text, beginTag, index)}})

\* A variant of Resolution without the scan for an end tag from offset 0:
\* a text without a begin tag is reported unmashed.
ResolutionWithoutRescan(text, endTag, scan) ==
    IF scan.firstBeginTagOccurrence = NoOccurrence
    THEN createInfo(Unmashed, NoOccurrence, NoOccurrence)
    ELSE IF scan.firstEndTagOccurrence = NoOccurrence
         THEN createInfo(EndTagMissing, scan.firstBeginTagOccurrence,
                         NoOccurrence)
         ELSE createInfo(scan.firstInvalidState,
                         scan.firstBeginTagOccurrence,
                         scan.firstEndTagOccurrence)

\* The code after the loops: what is reported when no pair is mashed.
Resolution(text, endTag, scan) ==
    IF scan.firstBeginTagOccurrence = NoOccurrence
    THEN LET firstEndTagOccurrence == NextEndTagOccurrence(text, endTag, 0)
         IN  IF firstEndTagOccurrence = NoOccurrence
             THEN createInfo(Unmashed, NoOccurrence, NoOccurrence)
             ELSE createInfo(BeginTagMissing, NoOccurrence,
                             firstEndTagOccurrence)
    ELSE IF scan.firstEndTagOccurrence = NoOccurrence
         THEN createInfo(EndTagMissing, scan.firstBeginTagOccurrence,
                         NoOccurrence)
         ELSE createInfo(scan.firstInvalidState,
                         scan.firstBeginTagOccurrence,
                         scan.firstEndTagOccurrence)

_getMashInfo(destinationText, beginTag, sourceText, endTag) ==
    The({IF loops.returned THEN loops.info
         ELSE Resolution(destinationText, endTag, loops.scan) :
            loops \in {BeginTagLoop(destinationText, beginTag, sourceText,
                                    endTag, 0, InitialScan)}})

(***************************************************************************)
(* mash and textIsMashed.                                                  *)
(***************************************************************************)
_insertText(destinationText, insertionIndex, beginTag, sourceText, endTag) ==
    substring(destinationText, 0, insertionIndex)
        \o beginTag
        \o sourceText
        \o MaterializedEndTag(endTag, _fingerprint(sourceText))
        \o substringFrom(destinationText, insertionIndex)

\* A variant of _appendText that puts the block before the text.
AppendTextAtStart(destinationText, beginTag, sourceText, endTag) ==
    _insertText(destinationText, 0, beginTag, sourceText, endTag)

_appendText(destinationText, beginTag, sourceText, endTag) ==
    _insertText(destinationText, Len(destinationText), beginTag, sourceText,
                endTag)

\* The assertions of mash hold for the info the locator returned.
MashAssertionsHold(mashInfo) ==
    /\ mashInfo.state # SourceTextTampered
    /\ mashInfo.state \notin {Unmashed, BeginTagMissing, EndTagMissing,
                              FingerprintInvalid}
          => /\ mashInfo.state = Mashed
             /\ mashInfo.beginTagIndex # -1
             /\ mashInfo.endOfEndTagIndex # -1

\* A variant of MashResult that does not cut the old block out.
MashResultKeepingOldBlock(destinationText, mashInfo, beginTag, sourceText, endTag) ==
    CASE mashInfo.state = Unmashed ->
            _appendText(destinationText, beginTag, sourceText, endTag)
      [] mashInfo.state = BeginTagMissing ->
            _insertText(destinationText, mashInfo.endOfEndTagIndex, beginTag,
                        sourceText, endTag)
      [] OTHER ->
            _insertText(destinationText, mashInfo.beginTagIndex, beginTag,
                        sourceText, endTag)

\* A variant of MashResult that puts the block after the begin tag of a
\* corrupted block.
MashResultAfterBeginTag(destinationText, mashInfo, beginTag, sourceText, endTag) ==
    CASE mashInfo.state = Unmashed ->
            _appendText(destinationText, beginTag, sourceText, endTag)
      [] mashInfo.state = BeginTagMissing ->
            _insertText(destinationText, mashInfo.endOfEndTagIndex, beginTag,
                        sourceText, endTag)
      [] mashInfo.state \in {EndTagMissing, FingerprintInvalid} ->
            _insertText(destinationText, mashInfo.endOfBeginTagIndex,
                        beginTag, sourceText, endTag)
      [] OTHER ->
            _insertText(substring(destinationText, 0, mashInfo.beginTagIndex)
                            \o substringFrom(destinationText,
                                             mashInfo.endOfEndTagIndex),
                        mashInfo.beginTagIndex, beginTag, sourceText, endTag)

\* The text mash returns once the locator has returned mashInfo.
MashResult(destinationText, mashInfo, beginTag, sourceText, endTag) ==
    CASE mashInfo.state = Unmashed ->
            _appendText(destinationText, beginTag, sourceText, endTag)
      [] mashInfo.state = BeginTagMissing ->
            _insertText(destinationText, mashInfo.endOfEndTagIndex, beginTag,
                        sourceText, endTag)
      [] mashInfo.state \in {EndTagMissing, FingerprintInvalid} ->
            _insertText(destinationText, mashInfo.beginTagIndex, beginTag,
                        sourceText, endTag)
      [] OTHER ->
            LET unsycnedDestinationText ==
                    substring(destinationText, 0, mashInfo.beginTagIndex)
                        \o substringFrom(destinationText,
                                         mashInfo.endOfEndTagIndex)
            IN  _insertText(unsycnedDestinationText, mashInfo.beginTagIndex,
                            beginTag, sourceText, endTag)

mash(destinationText, beginTag, sourceText, endTag) ==
    MashResult(destinationText,
               _getMashInfo(destinationText, beginTag, NoSourceText, endTag),
               beginTag, sourceText, endTag)

textIsMashed(destinationText, beginTag, sourceText, endTag) ==
    _getMashInfo(destinationText, beginTag, Str(sourceText), endTag).state
        = Mashed

(***************************************************************************)
(* The inputs of the model.                                                *)
(***************************************************************************)
\* Characters of the destination texts.
TextChars == {"x"}

RECURSIVE TextsUpTo(_)
TextsUpTo(n) ==
    IF n = 0 THEN {<<>>}
    ELSE LET shorter == TextsUpTo(n - 1)
         IN  shorter \cup {Append(t, c) : t \in shorter, c \in TextChars}

DestinationTexts == TextsUpTo(MaxDestLen)

\* Begin tags: a tag of one character no text holds, and a tag that overlaps
\* itself and the text around it.
BeginTags == {<<"[">>, <<"x", "x">>}

\* End tags, each holding the placeholder once: with a literal part before
\* the fingerprint, and the fingerprint alone.
EndTags == {<<"]", FINGERPRINT_PLACEHOLDER>>, <<FINGERPRINT_PLACEHOLDER>>}

\* What a user types over a tag or a source text.
TAMPERED_SOURCE_TEXT == <<"t">>

\* What a user adds to the document.
ADDED_TEXT == <<"x">>

\* Source texts without tags in them; "a" is a hexadecimal digit.
PlainSourceTexts == {<<"p">>, <<"q">>, <<"a">>}

\* Source texts that hold tags themselves: a whole mash with a wrong
\* fingerprint, a whole mash with its right fingerprint, and a text followed
\* by the end tag of that text.
TaggedSourceTexts(b, e) ==
    {b \o <<"p">> \o
         MaterializedEndTag(e,
             [i \in 1..FINGERPRINT_VALUE_IN_HEX_LENGTH |-> "0"]),
     mash(<<>>, b, <<"p">>, e),
     <<"p">> \o MaterializedEndTag(e, _fingerprint(<<"p">>))}

SourceTextsOf ==
    [b \in BeginTags, e \in EndTags |->
        PlainSourceTexts \cup TaggedSourceTexts(b, e)]

SourceTexts(b, e) == SourceTextsOf[b, e]

(***************************************************************************)
(* The state: a document kept by a caller and mashed repeatedly, and       *)
(* edited by a user between two mashes.                                    *)
(***************************************************************************)
VARIABLES
    beginTag,           \* the begin tag the caller uses
    endTag,             \* the end tag the caller uses
    destinationText,    \* the document
    previousText,       \* the document before the last operation
    sourceTexts,        \* the source texts mashed so far, oldest first
    mashInfo,           \* what the locator returned to the last mash
    lastOp,             \* the last operation
    edit,               \* the edit a user made, "none" before it
    editedText,         \* the document as the user found it
    threw,              \* an assertion of mash failed
    expected,           \* the sourceText argument of a locator call
    frame               \* the locals of a locator call run step by step

vars ==
    <<beginTag, endTag, destinationText, previousText, sourceTexts, mashInfo,
      lastOp, edit, editedText, threw, expected, frame>>

\* No locator call is run step by step.
NoFrame ==
    [pc |-> "idle", index |-> 0, beginTagOccurrence |-> NoOccurrence,
     endIndex |-> 0, scan |-> InitialScan,
     info |-> createInfo(Unmashed, NoOccurrence, NoOccurrence)]

\* The source text of the last mash.
sourceText == sourceTexts[Len(sourceTexts)]

mashes == Len(sourceTexts)

Init ==
    /\ beginTag \in BeginTags
    /\ endTag \in EndTags
    /\ \E text \in DestinationTexts, tagged \in BOOLEAN :
          destinationText =
              IF tagged THEN beginTag \o text \o endTag ELSE text
    /\ previousText = destinationText
    /\ sourceTexts = <<>>
    /\ mashInfo = createInfo(Unmashed, NoOccurrence, NoOccurrence)
    /\ lastOp = "init"
    /\ edit = "none"
    /\ editedText = <<>>
    /\ threw = FALSE
    /\ expected = NoSourceText
    /\ frame = NoFrame

\* mash(destinationText, beginTag, text, endTag) for a source text of texts,
\* its result kept as the document.
MashOneOf(texts) ==
    /\ ~threw
    /\ \E info \in {_getMashInfo(destinationText, beginTag, NoSourceText,
                                 endTag)} :
           \E text \in texts :
              /\ mashInfo' = info
              /\ previousText' = destinationText
              /\ sourceTexts' = Append(sourceTexts, text)
              /\ lastOp' = "mash"
              /\ IF MashAssertionsHold(info)
                 THEN /\ destinationText' =
                             MashResult(destinationText, info, beginTag,
                                        text, endTag)
                      /\ threw' = FALSE
                 ELSE /\ destinationText' = destinationText
                      /\ threw' = TRUE
              /\ UNCHANGED <<beginTag, endTag, edit, editedText, expected,
                             frame>>

\* A caller that mashes one source text after another.
Mash ==
    /\ mashes < MaxMashes
    /\ MashOneOf(SourceTexts(beginTag, endTag))

Next == Mash

Spec == Init /\ [][Next]_vars

(***************************************************************************)
(* A document mashed once, then edited by a user, then mashed again.       *)
(***************************************************************************)
EditInit ==
    /\ beginTag \in BeginTags
    /\ endTag \in EndTags
    /\ destinationText \in DestinationTexts
    /\ previousText = destinationText
    /\ sourceTexts = <<>>
    /\ mashInfo = createInfo(Unmashed, NoOccurrence, NoOccurrence)
    /\ lastOp = "init"
    /\ edit = "none"
    /\ editedText = <<>>
    /\ threw = FALSE
    /\ expected = NoSourceText
    /\ frame = NoFrame

FirstMash ==
    /\ mashes = 0
    /\ MashOneOf(PlainSourceTexts)

Remash ==
    /\ edit # "none"
    /\ mashes < 1 + MaxRemashes
    /\ MashOneOf(PlainSourceTexts)

\* An edit of the mashed document by a user.
Edit(op, text) ==
    /\ edit = "none"
    /\ mashes = 1
    /\ ~threw
    /\ destinationText' = text
    /\ previousText' = destinationText
    /\ lastOp' = op
    /\ edit' = op
    /\ editedText' = destinationText
    /\ UNCHANGED <<beginTag, endTag, sourceTexts, mashInfo, threw, expected,
                   frame>>

\* mashedText.replace(BEGIN_TAG, TAMPERED_SOURCE_TEXT), or the tag removed,
\* and then possibly mashedText += text.
TamperBeginTag ==
    \E by \in {<<>>, TAMPERED_SOURCE_TEXT}, later \in {<<>>, ADDED_TEXT} :
        Edit("tamperBeginTag",
             replace(destinationText, beginTag, by) \o later)

\* mashedText.replace(END_TAG.substring(0, 5), TAMPERED_SOURCE_TEXT): the
\* literal start of the end tag is overwritten.
TamperEndTag ==
    LET start == substring(endTag, 0, PlaceholderAt(endTag) - 1)
    IN  /\ start # <<>>
        /\ Edit("tamperEndTag",
                replace(destinationText, start, TAMPERED_SOURCE_TEXT))

\* mashedText.replace(SOURCE_TEXT, TAMPERED_SOURCE_TEXT).
TamperSourceText ==
    /\ mashes > 0
    /\ Edit("tamperSourceText",
            replace(destinationText, sourceText, TAMPERED_SOURCE_TEXT))

\* mashedText += text.
AppendText ==
    Edit("appendText", destinationText \o ADDED_TEXT)

\* mashedText = text + mashedText.
PrependText ==
    Edit("prependText", ADDED_TEXT \o destinationText)

\* BEGIN_TAG + updatedText.
PrependBeginTag ==
    Edit("prependBeginTag", beginTag \o destinationText)

EditNext ==
    \/ FirstMash
    \/ TamperBeginTag
    \/ TamperEndTag
    \/ TamperSourceText
    \/ AppendText
    \/ PrependText
    \/ PrependBeginTag
    \/ Remash

EditSpec == EditInit /\ [][EditNext]_vars

(***************************************************************************)
(* One call of _getMashInfo run step by step: a step resumes one of the    *)
(* two iterators.  frame.index is the index of                             *)
(* beginTagOccurrenceIterator, frame.endIndex the index of                 *)
(* endTagOccurrenceIterator.  The begin tag may be the empty string.       *)
(***************************************************************************)
ScanBeginTags == BeginTags \cup {<<>>}

\* The documents a locator call is given: plain texts, a text with one
\* block, with a block whose source text a user overwrote, with two blocks,
\* with a block after a block whose source text a user overwrote, with a
\* block that holds the fingerprint of another text, alone and before a
\* block whose source text a user overwrote.
ScanTexts(b, e) ==
    LET blocks ==
            {_appendText(d, b, P, e) :
                d \in DestinationTexts, P \in PlainSourceTexts}
        tampered ==
            {replace(t, <<"p">>, TAMPERED_SOURCE_TEXT) : t \in blocks}
    IN  DestinationTexts
            \cup blocks
            \cup tampered
            \cup {_appendText(t, b, <<"q">>, e) : t \in blocks}
            \cup {_appendText(t, b, P, e) :
                      t \in tampered \ blocks, P \in {<<"p">>, <<"q">>}}
            \cup {d \o b \o <<"p">>
                      \o MaterializedEndTag(e, _fingerprint(<<"q">>))
                      \o later :
                      d \in DestinationTexts,
                      later \in {<<>>,
                                 b \o TAMPERED_SOURCE_TEXT
                                     \o MaterializedEndTag(e,
                                            _fingerprint(<<"p">>))}}

ScanInit ==
    /\ beginTag \in ScanBeginTags
    /\ endTag \in EndTags
    /\ destinationText \in ScanTexts(beginTag, endTag)
    /\ expected \in {NoSourceText, Str(<<"p">>)}
    /\ frame = [NoFrame EXCEPT !.pc = "begin"]
    /\ previousText = destinationText
    /\ sourceTexts = <<>>
    /\ mashInfo = createInfo(Unmashed, NoOccurrence, NoOccurrence)
    /\ lastOp = "init"
    /\ edit = "none"
    /\ editedText = <<>>
    /\ threw = FALSE

\* The outer loop asks beginTagOccurrenceIterator for the next occurrence.
BeginTagStep ==
    /\ frame.pc = "begin"
    /\ LET occurrence ==
               NextBeginTagOccurrence(destinationText, beginTag, frame.index)
       IN  IF occurrence = NoOccurrence
           THEN frame' = [frame EXCEPT !.pc = "resolve"]
           ELSE frame' =
                    [frame EXCEPT
                        !.pc = "end",
                        !.index = occurrence.index + Len(beginTag),
                        !.beginTagOccurrence = occurrence,
                        !.endIndex = occurrence.endIndex,
                        !.scan.firstBeginTagOccurrence =
                            IF @ = NoOccurrence THEN occurrence ELSE @]
    /\ UNCHANGED <<beginTag, endTag, destinationText, previousText,
                   sourceTexts, mashInfo, lastOp, edit, editedText, threw,
                   expected>>

\* The inner loop asks endTagOccurrenceIterator for the next occurrence and
\* examines the pair.
EndTagStep ==
    /\ frame.pc = "end"
    /\ LET occurrence ==
               NextEndTagOccurrence(destinationText, endTag, frame.endIndex)
       IN  IF occurrence = NoOccurrence
           THEN frame' = [frame EXCEPT !.pc = "begin"]
           ELSE IF PairIsMashed(destinationText, expected,
                                frame.beginTagOccurrence, occurrence)
           THEN frame' =
                    [frame EXCEPT
                        !.pc = "done",
                        !.info = createInfo(Mashed, frame.beginTagOccurrence,
                                            occurrence)]
           ELSE frame' =
                    [frame EXCEPT
                        !.endIndex = occurrence.endIndex,
                        !.scan = ScanAfterPair(destinationText, expected,
                                               frame.beginTagOccurrence,
                                               occurrence, frame.scan)]
    /\ UNCHANGED <<beginTag, endTag, destinationText, previousText,
                   sourceTexts, mashInfo, lastOp, edit, editedText, threw,
                   expected>>

\* assert(!firstEndTagOccurrence), made when no begin tag was found.
ResolutionAssertionHolds(scan) ==
    scan.firstBeginTagOccurrence = NoOccurrence
        => scan.firstEndTagOccurrence = NoOccurrence

\* The code after the loops.
Resolve ==
    /\ frame.pc = "resolve"
    /\ IF ResolutionAssertionHolds(frame.scan)
       THEN /\ frame' =
                   [frame EXCEPT
                       !.pc = "done",
                       !.info = Resolution(destinationText, endTag,
                                           frame.scan)]
            /\ threw' = FALSE
       ELSE /\ frame' = [frame EXCEPT !.pc = "threw"]
            /\ threw' = TRUE
    /\ UNCHANGED <<beginTag, endTag, destinationText, previousText,
                   sourceTexts, mashInfo, lastOp, edit, editedText, expected>>

\* The call was made by mash, without a source text: the switch of mash and
\* the code after it, for a source text of the caller.
MashSwitch ==
    /\ frame.pc = "done"
    /\ ~expected.isString
    /\ \E text \in PlainSourceTexts :
          /\ mashInfo' = frame.info
          /\ previousText' = destinationText
          /\ sourceTexts' = <<text>>
          /\ lastOp' = "mash"
          /\ IF MashAssertionsHold(frame.info)
             THEN /\ destinationText' =
                         MashResult(destinationText, frame.info, beginTag,
                                    text, endTag)
                  /\ threw' = FALSE
                  /\ frame' = [frame EXCEPT !.pc = "returned"]
             ELSE /\ destinationText' = destinationText
                  /\ threw' = TRUE
                  /\ frame' = [frame EXCEPT !.pc = "threw"]
    /\ UNCHANGED <<beginTag, endTag, edit, editedText, expected>>

ScanNext ==
    \/ BeginTagStep
    \/ EndTagStep
    \/ Resolve
    \/ MashSwitch

ScanSpec == ScanInit /\ [][ScanNext]_vars

(***************************************************************************)
(* What the claims are stated with.                                        *)
(***************************************************************************)
\* The block mash writes for a source text.
NewBlock(b, text, e) ==
    b \o text \o MaterializedEndTag(e, _fingerprint(text))

\* The locator's answer for the document the last mash was given.
PreviousInfo == _getMashInfo(previousText, beginTag, NoSourceText, endTag)

\* The last operation was a mash that returned a text.
Mashed_ == lastOp = "mash" /\ ~threw

(***************************************************************************)
(* C1.  After a mash of a source text P the document is reported mashed    *)
(* for P by textIsMashed, whichever state the locator found the document   *)
(* in.                                                                     *)
(***************************************************************************)
C1_MashedAfterMash ==
    Mashed_ => textIsMashed(destinationText, beginTag, sourceText, endTag)

(***************************************************************************)
(* C2.  Mashing the same source text a second time replaces the block the  *)
(* first mash wrote: the second mash finds the document mashed and the     *)
(* document does not grow.                                                 *)
(***************************************************************************)
C2_RemashReplaces ==
    (Mashed_ /\ mashes >= 2 /\ sourceTexts[mashes] = sourceTexts[mashes - 1])
        => /\ mashInfo.state = Mashed
           /\ Len(destinationText) <= Len(previousText)

(***************************************************************************)
(* C3.  When the locator, called without a source text, reports the        *)
(* document D mashed on the block [b, e), mash returns D[0:b], then the    *)
(* new block, then D[e:]: the text outside the block is kept as it was,    *)
(* also the text a user put before or after the block.                     *)
(***************************************************************************)
C3_UpdateInPlace ==
    (Mashed_ /\ PreviousInfo.state = Mashed) =>
        destinationText =
            substring(previousText, 0, PreviousInfo.beginTagIndex)
                \o NewBlock(beginTag, sourceText, endTag)
                \o substringFrom(previousText, PreviousInfo.endOfEndTagIndex)

\* A mashed document to which a user added text is mashed again, with text
\* on both sides of the block.
C3_Witness ==
    /\ Mashed_
    /\ PreviousInfo.state = Mashed
    /\ edit \in {"appendText", "prependText"}
    /\ sourceTexts[mashes] # sourceTexts[mashes - 1]
    /\ PreviousInfo.beginTagIndex > 0
    /\ PreviousInfo.endOfEndTagIndex < Len(previousText)

(***************************************************************************)
(* C4.  When the document holds a valid mash of a source text P1 and a     *)
(* different source text P2 is mashed, the result is reported mashed for   *)
(* P2 and no longer for P1.                                                *)
(***************************************************************************)
C4_UpdateSwapsSourceText ==
    Mashed_ =>
        \A P1 \in SourceTexts(beginTag, endTag) :
            (/\ P1 # sourceText
             /\ textIsMashed(previousText, beginTag, P1, endTag))
                => /\ textIsMashed(destinationText, beginTag, sourceText,
                                   endTag)
                   /\ ~textIsMashed(destinationText, beginTag, P1, endTag)

(***************************************************************************)
(* C5.  A document with no begin tag and no end tag in it is reported      *)
(* mashed for no source text, and mash appends the new block to it: the    *)
(* result is the document, the begin tag, the source text and the end tag  *)
(* with the 40 hexadecimal characters of the fingerprint in the            *)
(* placeholder's place.                                                    *)
(***************************************************************************)
HasNoTag(text) ==
    /\ indexOf(text, beginTag, 0) = -1
    /\ EndTagRegExpExec(text, endTag, 0) = -1

IsLowerHex40(fingerprint) ==
    /\ Len(fingerprint) = 40
    /\ \A i \in 1..40 :
          fingerprint[i] \in {HexDigits[h] : h \in 1..Len(HexDigits)}

C5_AppendWhenAbsent ==
    (Mashed_ /\ HasNoTag(previousText)) =>
        /\ \A P \in SourceTexts(beginTag, endTag) :
              ~textIsMashed(previousText, beginTag, P, endTag)
        /\ \E fingerprint \in {_fingerprint(sourceText)} :
              /\ IsLowerHex40(fingerprint)
              /\ destinationText =
                     previousText \o beginTag \o sourceText
                         \o substring(endTag, 0, PlaceholderAt(endTag) - 1)
                         \o fingerprint
                         \o substringFrom(endTag, PlaceholderAt(endTag))

\* A document that is not empty and holds no tag has been mashed.
C5_Witness ==
    /\ Mashed_
    /\ HasNoTag(previousText)
    /\ previousText # <<>>

(***************************************************************************)
(* C6.  A document with no begin tag but with an end tag gets the new      *)
(* block right after its first end tag, at offset k: the result is         *)
(* D[0:k], the new block, D[k:].                                           *)
(***************************************************************************)
EndOfFirstEndTag(text) ==
    EndTagRegExpExec(text, endTag, 0) + EndTagMatchLength(endTag)

C6_InsertAfterOrphanedEndTag ==
    (/\ Mashed_
     /\ indexOf(previousText, beginTag, 0) = -1
     /\ EndTagRegExpExec(previousText, endTag, 0) # -1)
        => destinationText =
               substring(previousText, 0, EndOfFirstEndTag(previousText))
                   \o NewBlock(beginTag, sourceText, endTag)
                   \o substringFrom(previousText,
                                    EndOfFirstEndTag(previousText))

\* The begin tag of a mash was destroyed, text was added after its end tag,
\* and the document has been mashed again.
C6_Witness ==
    /\ Mashed_
    /\ edit = "tamperBeginTag"
    /\ indexOf(previousText, beginTag, 0) = -1
    /\ EndTagRegExpExec(previousText, endTag, 0) # -1
    /\ EndOfFirstEndTag(previousText) < Len(previousText)
    /\ EndOfFirstEndTag(previousText) > 0

(***************************************************************************)
(* C7.  A document held one valid mash of P1 and a user destroyed the      *)
(* begin tag of it.  After every later mash of a source text other than    *)
(* P1 the document is not reported mashed for P1, and it is reported       *)
(* mashed for the source text mashed last.                                 *)
(***************************************************************************)
\* The first mash left a valid mash of its source text, and only source
\* texts other than that one were mashed since.
OldSourceTextReplaced ==
    /\ mashes >= 2
    /\ textIsMashed(editedText, beginTag, sourceTexts[1], endTag)
    /\ \A k \in 2..mashes : sourceTexts[k] # sourceTexts[1]

OldSourceTextGone ==
    ~textIsMashed(destinationText, beginTag, sourceTexts[1], endTag)

C7_OldSourceTextNeverReported ==
    (Mashed_ /\ edit = "tamperBeginTag" /\ OldSourceTextReplaced) =>
        /\ OldSourceTextGone
        /\ textIsMashed(destinationText, beginTag, sourceText, endTag)

(***************************************************************************)
(* C8.  When the locator reports the end tag missing or the fingerprint    *)
(* invalid, mash puts the new block at the offset b of the first begin     *)
(* tag: the result is D[0:b], the new block, D[b:], so the corrupted block *)
(* follows the new one unmodified.  As first stated, the source text of    *)
(* the corrupted block is never reported mashed in the result.             *)
(***************************************************************************)
InsertedBeforeFirstBeginTag ==
    destinationText =
        substring(previousText, 0, indexOf(previousText, beginTag, 0))
            \o NewBlock(beginTag, sourceText, endTag)
            \o substringFrom(previousText, indexOf(previousText, beginTag, 0))

\* A user corrupted the end tag or the source text of a valid mash.
CorruptedByUser ==
    /\ edit \in {"tamperEndTag", "tamperSourceText"}
    /\ mashes >= 2
    /\ textIsMashed(editedText, beginTag, sourceTexts[1], endTag)

InsertionIndex ==
    CASE mashInfo.state = Unmashed -> Len(previousText)
      [] mashInfo.state = BeginTagMissing -> mashInfo.endOfEndTagIndex
      [] OTHER -> mashInfo.beginTagIndex

LocatesNewBlock(info) ==
    /\ info.state = Mashed
    /\ info.beginTagIndex = InsertionIndex
    /\ info.endOfEndTagIndex =
           InsertionIndex + Len(NewBlock(beginTag, sourceText, endTag))

C9_TaggedSourceTextKeepsBlock ==
    (Mashed_ /\ sourceText \in TaggedSourceTexts(beginTag, endTag)) =>
        LocatesNewBlock(_getMashInfo(destinationText, beginTag, NoSourceText,
                                     endTag))

(***************************************************************************)
(* C10.  The scans of a locator call go strictly forward through the       *)
(* document: each time the begin tag iterator is resumed its index is      *)
(* greater than before, and so is the index of the end tag iterator, so a  *)
(* call makes no more steps than the document has characters and returns.  *)
(***************************************************************************)
C10_ScansAdvance ==
    [][/\ (frame.pc = "begin" /\ frame'.pc = "end")
            => frame'.index > frame.index
       /\ (frame.pc = "end" /\ frame'.pc = "end")
            => frame'.endIndex > frame.endIndex]_vars

(***************************************************************************)
(* C11.  No assertion fails: a locator call made by mash, without a source *)
(* text, never reports the source text tampered; when mash falls through   *)
(* its switch the state is Mashed and the offsets of the begin tag and of  *)
(* the end of the end tag are defined; and when the loops found no begin   *)
(* tag, no end tag has been recorded before the scan from offset 0.        *)
(***************************************************************************)
C11_NoAssertionFails ==
    /\ ~threw
    /\ (frame.pc \in {"done", "returned"} /\ ~expected.isString)
          => /\ frame.info.state # SourceTextTampered
             /\ frame.info.state \notin {Unmashed, BeginTagMissing,
                                         EndTagMissing, FingerprintInvalid}
                   => /\ frame.info.state = Mashed
                      /\ frame.info.beginTagIndex # -1
                      /\ frame.info.endOfEndTagIndex # -1
    /\ (frame.pc = "resolve"
            /\ frame.scan.firstBeginTagOccurrence = NoOccurrence)
          => frame.scan.firstEndTagOccurrence = NoOccurrence

\* mash fell through its switch and returned, after the locator had passed
\* a pair with a wrong fingerprint.
C11_Witness ==
    /\ frame.pc = "returned"
    /\ ~expected.isString
    /\ mashInfo.state = Mashed
    /\ frame.scan.firstInvalidState = FingerprintInvalid

(***************************************************************************)
(* C12.  The locator reports Mashed exactly when the document holds a      *)
(* begin tag and, after it, an end tag such that the text between them is  *)
(* the expected source text (when one is given) and has the fingerprint    *)
(* the end tag holds; the offsets it reports are those of the first such   *)
(* pair, begin tags taken from left to right and, for one begin tag, end   *)
(* tags from left to right.  Stated for begin tags that are not empty.     *)
(***************************************************************************)
\* The offsets at which the begin tag occurs in text.
BeginTagPlaces(text) ==
    {i \in 0..(Len(text) - Len(beginTag)) : OccursAt(text, beginTag, i)}

\* The offsets from index on at which the end tag pattern matches text.
EndTagPlaces(text, index) ==
    {j \in index..(Len(text) - EndTagMatchLength(endTag)) :
        EndTagRegExpMatchesAt(text, endTag, PlaceholderAt(endTag), j)}

\* The begin tag at i and the end tag at j pass both checks.
PairPasses(text, i, j) ==
    PairIsMashed(text, expected,
                 NextBeginTagOccurrence(text, beginTag, i),
                 NextEndTagOccurrence(text, endTag, j))

ValidPairs(text) ==
    {pair \in BeginTagPlaces(text) \X (0..Len(text)) :
        /\ pair[2] \in EndTagPlaces(text, pair[1] + Len(beginTag))
        /\ PairPasses(text, pair[1], pair[2])}

\* The first pair of a set of pairs in the order of the scan.
FirstPair(pairs) ==
    CHOOSE pair \in pairs :
        \A other \in pairs :
            \/ pair[1] < other[1]
            \/ pair[1] = other[1] /\ pair[2] <= other[2]

C12_FirstValidPairWins ==
    (frame.pc = "done" /\ beginTag # <<>>) =>
        /\ frame.info.state = Mashed <=> ValidPairs(destinationText) # {}
        /\ frame.info.state = Mashed =>
              /\ ValidPairs(destinationText) # {}
              /\ frame.info.beginTagIndex =
                     FirstPair(ValidPairs(destinationText))[1]
              /\ frame.info.endTagIndex =
                     FirstPair(ValidPairs(destinationText))[2]
              /\ frame.info.endOfBeginTagIndex =
                     frame.info.beginTagIndex + Len(beginTag)
              /\ frame.info.endOfEndTagIndex =
                     frame.info.endTagIndex + EndTagMatchLength(endTag)

(***************************************************************************)
(* C13.  When the locator does not report Mashed it reports: Unmashed      *)
(* without offsets exactly when the document holds no begin tag and no end *)
(* tag; BeginTagMissing with the offsets of the first end tag of the       *)
(* document exactly when it holds no begin tag but an end tag;             *)
(* EndTagMissing with the offsets of the first begin tag only exactly when *)
(* it holds a begin tag and no end tag after any begin tag; and otherwise  *)
(* the state of the first pair scanned (SourceTextTampered when a source   *)
(* text is given and is not the text of that pair, else                    *)
(* FingerprintInvalid) with the offsets of the first begin tag and of the  *)
(* first end tag after it, whatever the later pairs are.                   *)
(***************************************************************************)
\* What the locator has to report for text when no pair is valid.
ExpectedResolution(text) ==
    LET b == indexOf(text, beginTag, 0)
        first == EndTagRegExpExec(text, endTag, 0)
        e == EndTagRegExpExec(text, endTag, b + Len(beginTag))
        length == EndTagMatchLength(endTag)
    IN  IF BeginTagPlaces(text) = {} /\ EndTagPlaces(text, 0) = {}
        THEN [state |-> Unmashed, beginTagIndex |-> -1,
              endOfBeginTagIndex |-> -1, endTagIndex |-> -1,
              endOfEndTagIndex |-> -1]
        ELSE IF BeginTagPlaces(text) = {}
        THEN [state |-> BeginTagMissing, beginTagIndex |-> -1,
              endOfBeginTagIndex |-> -1, endTagIndex |-> first,
              endOfEndTagIndex |-> first + length]
        ELSE IF \A i \in BeginTagPlaces(text) :
                    EndTagPlaces(text, i + Len(beginTag)) = {}
        THEN [state |-> EndTagMissing, beginTagIndex |-> b,
              endOfBeginTagIndex |-> b + Len(beginTag), endTagIndex |-> -1,
              endOfEndTagIndex |-> -1]
        ELSE [state |->
                  IF /\ expected.isString
                     /\ expected.text # substring(text, b + Len(beginTag), e)
                  THEN SourceTextTampered ELSE FingerprintInvalid,
              beginTagIndex |-> b,
              endOfBeginTagIndex |-> b + Len(beginTag), endTagIndex |-> e,
              endOfEndTagIndex |-> e + length]

ScanAgrees ==
    (frame.pc = "done" /\ beginTag # <<>>) =>
        frame.info = _getMashInfo(destinationText, beginTag, expected, endTag)

=============================================================================
